---- MODULE Spec2Model ----
(***************************************************************************)
(* Model of src/app.js: the express handlers of the car marketplace        *)
(* backend (signup, login, logout, getUser, favoriteCar, favorites,        *)
(* sellACar, sendEmail) over the two mongoose collections User and Car.    *)
(*                                                                         *)
(* A handler is one action per stretch of code between two awaits on the   *)
(* store that matter for interleaving: favoriteCar is read (findById) and  *)
(* write (save); signup is check (findOne) and create.  The other handlers *)
(* read the store at one point and are one action each.  A handler that    *)
(* is suspended between its two actions is held in the bag inflight.       *)
(*                                                                         *)
(* The store is mongoose over MongoDB.  save() sends the changes made to   *)
(* the document, not the document: a push on an array path is sent as      *)
(* $push, an assignment to it as $set guarded by the version key __v.      *)
(* A store operation may also fail (storeOk = FALSE).                      *)
(*                                                                         *)
(* The session gate isThereLoggedUser is required from ./middlewares,      *)
(* which is not among the sources; it is modelled from section 4.2 of the  *)
(* specification.                                                          *)
(***************************************************************************)
EXTENDS Integers, Sequences, FiniteSets, Bags, TLC

\* ------------------------------------------------------------------ bounds
MaxUsers == 2          \* identities the store may hold
MaxVersion == 3        \* saves of one identity's favorites (mongoose __v)
MaxTime == 2           \* clock ticks
MaxInflight == 2       \* requests suspended at a store await

\* ------------------------------------------------------- program constants
MinNameLen == 2        \* userSchema.name.minlength
MaxNameLen == 20       \* userSchema.name.maxlength
JwtExpireTime == 2     \* process.env.JWT_EXPIRE_TIME, in clock ticks

\* ------------------------------------------------------------ input values
Undefined == "<undefined>"           \* a field the request body omits
Emails == {"a@x.com", "A@X.COM", "b@x.com"}
Passwords == {"p1", "p2"}

\* ObjectIds are written here as two-letter hex strings.  The route
\* parameter :carId is a string: "c1" and "C1" spell the same ObjectId.
CarIds == {"c1", "c2"}
CarParams == {"c1", "C1", "c2"}

\* mongoose.Types.ObjectId accepts hexadecimal digits of either case
ObjectIdValid(s) == s \in {"c1", "C1", "c2", "C2"}

\* casting a string to an ObjectId; ObjectId.toString() is lowercase hex,
\* so a stored id is represented by its toString()
CastObjectId(s) ==
  CASE s = "C1" -> "c1"
    [] s = "C2" -> "c2"
    [] OTHER -> s

\* userSchema.email lowercase: true (a setter, run on documents and on
\* query filters)
Lowercase(e) == IF e = "A@X.COM" THEN "a@x.com" ELSE e

\* ------------------------------------------------------------------ tokens
\* A JWT: the identity id of its payload, its exp claim, and whether its
\* signature was made with JWT_SECRET.
NoToken == [id |-> -1, exp |-> 0, sig |-> "none"]
GhostId == 0     \* an identity removed from the store out of band
GhostToken == [id |-> GhostId, exp |-> MaxTime + JwtExpireTime + 1, sig |-> "secret"]
ForgedToken == [id |-> 1, exp |-> MaxTime + JwtExpireTime + 1, sig |-> "other"]

\* jwt.sign({ id: user._id }, JWT_SECRET, { expiresIn: JWT_EXPIRE_TIME })
JwtSign(id, t) == [id |-> id, exp |-> t + JwtExpireTime, sig |-> "secret"]

VARIABLES
  users,      \* the User collection: users[i] is the document with _id i
  cars,       \* the Car collection: the set of _ids of the listings
  carrier,    \* the client's jwt cookie (NoToken: none)
  kept,       \* a copy of the token the last logout cleared from the cookie
  now,        \* the clock
  inflight,   \* the bag of requests suspended between two store operations
  last        \* the request that completed last, and its response

vars == <<users, cars, carrier, kept, now, inflight, last>>

UserIds == 1..Len(users)

SeqToSet(s) == {s[i] : i \in 1..Len(s)}

\* ---------------------------------------------------------------- requests
\* no identity record in the response
NoIdentity == [name |-> "", email |-> "", password |-> ""]

\* The record of a completed request.  Every field has a default; a handler
\* overrides the ones it sets.
Blank ==
  [route |-> "", at |-> 0, cookie |-> NoToken, gate |-> "", ran |-> FALSE,
   responded |-> TRUE, status |-> 0, msg |-> "",
   sess |-> -1, uid |-> -1, carId |-> "", op |-> "",
   read |-> <<>>, stored |-> <<>>, favorites |-> <<>>,
   email |-> "", password |-> "", token |-> NoToken, cookieBefore |-> NoToken,
   identity |-> NoIdentity]

\* ------------------------------------------------------------ session gate
JwtVerifySession(tok, t) ==
  IF tok.sig # "secret" \/ tok # carrier THEN "JsonWebTokenError"
  ELSE IF t >= tok.exp THEN "TokenExpiredError"
  ELSE "ok"

JwtVerifyLate(tok, t) ==
  IF tok.sig # "secret" THEN "JsonWebTokenError"
  ELSE IF t > tok.exp THEN "TokenExpiredError"
  ELSE "ok"

\* jwt.verify(token, JWT_SECRET): the signature is checked first, then exp
JwtVerify(tok, t) ==
  IF tok.sig # "secret" THEN "JsonWebTokenError"
  ELSE IF t >= tok.exp THEN "TokenExpiredError"
  ELSE "ok"

\* isThereLoggedUser (./middlewares): no token, a token that fails to
\* verify, a token whose identity is not in the store, or admission
Gate(tok, t) ==
  IF tok = NoToken THEN "NoSession"
  ELSE IF JwtVerify(tok, t) # "ok" THEN "InvalidSession"
  ELSE IF tok.id \notin UserIds THEN "IdentityGone"
  ELSE "Authenticated"

UsesGateButGetUser(route) ==
  route \in {"sellACar", "favoriteCar", "favorites", "sendEmail", "logout"}

\* the routes registered with isThereLoggedUser before their handler
UsesGate(route) ==
  route \in {"sellACar", "favoriteCar", "favorites", "getUser", "sendEmail", "logout"}

Admitted(route, tok) == UsesGate(route) => Gate(tok, now) = "Authenticated"

\* the response of the gate to a request it does not admit
Rejected(route, tok) ==
  [Blank EXCEPT !.route = route, !.at = now, !.cookie = tok, !.gate = Gate(tok, now),
                !.status = 401, !.msg = Gate(tok, now)]

\* what a client may send as its jwt cookie: the cookie it holds, a token it
\* kept from before a logout, nothing, a token of a removed identity, a
\* token signed with another key
Presentable == {carrier, kept, NoToken, GhostToken, ForgedToken}

\* a handler suspends at its await and another request is taken up
Suspend(r) ==
  /\ BagCardinality(inflight) < MaxInflight
  /\ inflight' = inflight (+) SetToBag({r})

\* a suspended handler is resumed with the answer of the store
Resume(r) ==
  /\ BagIn(r, inflight)
  /\ inflight' = inflight (-) SetToBag({r})

\* --------------------------------------------- PATCH /favoriteCar/:carId
\* MongooseArray.includes: obj == this[i], the string against the
\* ObjectId's toString()
Includes(arr, obj) == \E i \in 1..Len(arr) : obj = arr[i]

FilterKeepAll(arr, carId) == arr

\* user.favorites.filter((id) => id.toString() !== carId)
Filter(arr, carId) ==
  LET Keep(id) == id # carId IN SelectSeq(arr, Keep)

UserNotFoundAs200(base) == [base EXCEPT !.status = 200, !.msg = "Car favorited"]

\* return res.status(404).json({ message: "User not found" })
UserNotFound(base) == [base EXCEPT !.status = 404, !.msg = "User not found"]

\* the handler up to the await of User.findById(userId)
FavoriteCarFind(tok, carId, userId, storeOk) ==
  /\ UNCHANGED <<users, cars, carrier, kept, now>>
  /\ LET base == [Blank EXCEPT !.route = "favoriteCar", !.at = now, !.cookie = tok,
                               !.gate = "Authenticated", !.ran = TRUE,
                               !.sess = tok.id, !.uid = userId, !.carId = carId]
     IN
     IF ~Admitted("favoriteCar", tok)
     THEN /\ last' = Rejected("favoriteCar", tok)
          /\ UNCHANGED inflight
     ELSE IF ~storeOk
     THEN /\ last' = [base EXCEPT !.status = 500,
                                  !.msg = "Error updating favorite status"]
          /\ UNCHANGED inflight
     ELSE IF userId \notin UserIds
     THEN /\ last' = UserNotFound(base)
          /\ UNCHANGED inflight
     ELSE /\ Suspend([route |-> "favoriteCar", at |-> now, cookie |-> tok,
                       sess |-> tok.id, uid |-> userId, carId |-> carId,
                       doc |-> [favorites |-> users[userId].favorites,
                                v |-> users[userId].v]])
          /\ UNCHANGED last

SaveSetPartial(u, doc, arr, storeOk) ==
  [ok |-> storeOk /\ users[u].v = doc.v,
   users |-> [users EXCEPT ![u].favorites = arr]]

\* user.save() after user.favorites = <array>: $set of the whole array,
\* conditional on __v being the one read, and $inc of __v
SaveSet(u, doc, arr, storeOk) ==
  IF storeOk /\ users[u].v = doc.v
  THEN [ok |-> TRUE,
        users |-> [users EXCEPT ![u].favorites = arr, ![u].v = @ + 1]]
  ELSE [ok |-> FALSE, users |-> users]

SavePushWhole(u, doc, id, storeOk) ==
  IF storeOk
  THEN [ok |-> TRUE,
        users |-> [users EXCEPT ![u].favorites = Append(doc.favorites, id),
                                ![u].v = @ + 1]]
  ELSE [ok |-> FALSE, users |-> users]

SavePushEveryone(u, doc, id, storeOk) ==
  IF storeOk
  THEN [ok |-> TRUE,
        users |-> [w \in DOMAIN users |->
                     [users[w] EXCEPT !.favorites = Append(@, id), !.v = @ + 1]]]
  ELSE [ok |-> FALSE, users |-> users]

\* user.save() after user.favorites.push(id): $push of id onto the stored
\* array and $inc of __v, whatever __v is
SavePush(u, doc, id, storeOk) ==
  IF storeOk
  THEN [ok |-> TRUE,
        users |-> [users EXCEPT ![u].favorites = Append(@, id), ![u].v = @ + 1]]
  ELSE [ok |-> FALSE, users |-> users]

\* the handler from the answer of findById to the response (at: when the
\* request passed the gate)
FavoriteCarSave(r, storeOk) ==
  /\ r.route = "favoriteCar"
  /\ storeOk => users[r.uid].v < MaxVersion
  /\ Resume(r)
  /\ UNCHANGED <<cars, carrier, kept, now>>
  /\ LET isFavorite == Includes(r.doc.favorites, r.carId)
         base == [Blank EXCEPT !.route = "favoriteCar", !.at = r.at, !.cookie = r.cookie,
                               !.gate = "Authenticated", !.ran = TRUE,
                               !.sess = r.sess, !.uid = r.uid, !.carId = r.carId,
                               !.op = IF isFavorite THEN "remove" ELSE "add",
                               !.read = r.doc.favorites,
                               !.stored = users[r.uid].favorites]
         failed == [base EXCEPT !.status = 500,
                                !.msg = "Error updating favorite status"]
     IN
     IF isFavorite
     THEN LET arr == Filter(r.doc.favorites, r.carId)
              w == SaveSet(r.uid, r.doc, arr, storeOk)
          IN /\ users' = w.users
             /\ last' = IF w.ok
                        THEN [base EXCEPT !.status = 200, !.msg = "Car favorited",
                                          !.favorites = arr]
                        ELSE failed
     ELSE IF ~ObjectIdValid(r.carId)
     THEN /\ users' = users
          /\ last' = failed
     ELSE LET id == CastObjectId(r.carId)
              w == SavePush(r.uid, r.doc, id, storeOk)
          IN /\ users' = w.users
             /\ last' = IF w.ok
                        THEN [base EXCEPT !.status = 200, !.msg = "Car favorited",
                                          !.favorites = Append(r.doc.favorites, id)]
                        ELSE failed

\* ------------------------------------------------------------------- clock
Tick ==
  /\ now < MaxTime
  /\ now' = now + 1
  /\ UNCHANGED <<users, cars, carrier, kept, inflight, last>>

\* ------------------------------------------------------------ POST /signup
\* userSchema: name of 2 to 20 characters; passwordConfirm, when the body
\* carries one, equal to password (mongoose runs a validator only on a
\* defined value)
ValidUser(name, password, confirm) ==
  /\ Len(name) >= MinNameLen
  /\ Len(name) <= MaxNameLen
  /\ confirm # Undefined => confirm = password

UniqueOkNoIndex(name, email) == TRUE

\* the unique indexes of userSchema on name and on email
UniqueOk(name, email) ==
  \A u \in UserIds : users[u].name # name /\ users[u].email # email

\* User.findOne({ email }): the filter is cast by the schema (lowercase)
FindByEmail(email) == {u \in UserIds : users[u].email = Lowercase(email)}

\* the handler up to the await of User.findOne
SignupFind(name, email, password, confirm, storeOk) ==
  /\ UNCHANGED <<users, cars, carrier, kept, now>>
  /\ LET base == [Blank EXCEPT !.route = "signup", !.at = now, !.ran = TRUE, !.email = email]
     IN
     IF ~storeOk
     THEN \* the catch handles ValidationError and code 11000 only
          /\ last' = [base EXCEPT !.responded = FALSE]
          /\ UNCHANGED inflight
     ELSE IF FindByEmail(email) # {}
     THEN /\ last' = [base EXCEPT !.status = 200,
                 !.msg = "There is already an account with that email!"]
          /\ UNCHANGED inflight
     ELSE /\ Suspend([route |-> "signup", name |-> name, email |-> email,
                       password |-> password, confirm |-> confirm])
          /\ UNCHANGED last

\* User.create and the response
SignupCreate(r, storeOk) ==
  /\ r.route = "signup"
  /\ Resume(r)
  /\ UNCHANGED <<cars, carrier, kept, now>>
  /\ LET email == Lowercase(r.email)
         base == [Blank EXCEPT !.route = "signup", !.at = now, !.ran = TRUE, !.email = r.email,
                               !.password = r.password]
     IN
     IF ~ValidUser(r.name, r.password, r.confirm)
     THEN /\ users' = users
          /\ last' = [base EXCEPT !.status = 200, !.msg = "ValidationError"]
     ELSE IF ~storeOk
     THEN /\ users' = users
          /\ last' = [base EXCEPT !.responded = FALSE]
     ELSE IF ~UniqueOk(r.name, email)
     THEN /\ users' = users
          /\ last' = [base EXCEPT !.status = 200,
                                  !.msg = "That name is already taken!"]
     ELSE /\ Len(users) < MaxUsers
          /\ users' = Append(users, [name |-> r.name, email |-> email,
                                     password |-> r.password,
                                     favorites |-> <<>>, v |-> 0])
          /\ last' = [base EXCEPT !.status = 200, !.msg = "User signed up",
                        !.uid = Len(users) + 1,
                        !.identity = [name |-> r.name, email |-> email,
                                      password |-> r.password]]

\* ------------------------------------------------------------- POST /login
WrongPasswordNever(password, u) == FALSE

\* password !== user.password
WrongPassword(password, u) == password # users[u].password

Login(email, password, storeOk) ==
  /\ UNCHANGED <<users, cars, kept, now, inflight>>
  /\ LET base == [Blank EXCEPT !.route = "login", !.at = now, !.ran = TRUE, !.email = email,
                               !.password = password, !.cookieBefore = carrier]
         found == FindByEmail(email)
     IN
     IF email = Undefined \/ password = Undefined
     THEN /\ last' = [base EXCEPT !.status = 200,
                 !.msg = "Please provide a valid email and password!"]
          /\ UNCHANGED carrier
     ELSE IF ~storeOk
     THEN \* no try around the await: the rejection is not handled
          /\ last' = [base EXCEPT !.responded = FALSE]
          /\ UNCHANGED carrier
     ELSE IF found = {}
     THEN /\ last' = [base EXCEPT !.status = 200, !.msg = "User not found!"]
          /\ UNCHANGED carrier
     ELSE LET u == CHOOSE x \in found : TRUE IN
          IF WrongPassword(password, u)
          THEN /\ last' = [base EXCEPT !.status = 200, !.msg = "Wrong password!"]
               /\ UNCHANGED carrier
          ELSE /\ carrier' = JwtSign(u, now)
               /\ last' = [base EXCEPT !.status = 200, !.msg = "User logged in!",
                                       !.uid = u, !.token = JwtSign(u, now)]

\* ------------------------------------------------------------ POST /logout
ClearCookieNot(cookie) == cookie

\* res.cookie("jwt", "", { httpOnly: true, maxAge: 0 }): the client drops
\* the cookie it holds
ClearCookie(cookie) == NoToken

Logout(tok) ==
  /\ UNCHANGED <<users, cars, now, inflight>>
  /\ IF ~Admitted("logout", tok)
     THEN /\ last' = Rejected("logout", tok)
          /\ UNCHANGED <<carrier, kept>>
     ELSE /\ carrier' = ClearCookie(carrier)
          /\ kept' = IF carrier # NoToken THEN carrier ELSE kept
          /\ last' = [Blank EXCEPT !.route = "logout", !.at = now, !.cookie = tok,
                        !.gate = "Authenticated", !.ran = TRUE, !.sess = tok.id,
                        !.status = 200, !.msg = "Logged out successfully!",
                        !.cookieBefore = carrier]

\* ------------------------------------------------------------ GET /getUser
GetUser(tok, storeOk) ==
  /\ UNCHANGED <<users, cars, carrier, kept, now, inflight>>
  /\ LET base == [Blank EXCEPT !.route = "getUser", !.at = now, !.cookie = tok,
                               !.gate = "Authenticated", !.ran = TRUE,
                               !.sess = tok.id]
     IN
     IF ~Admitted("getUser", tok)
     THEN last' = Rejected("getUser", tok)
     ELSE IF tok = NoToken
     THEN last' = [base EXCEPT !.status = 200, !.msg = "Not authenticated"]
     ELSE IF JwtVerify(tok, now) # "ok" \/ ~storeOk
     THEN last' = [base EXCEPT !.status = 401, !.msg = "Invalid or expired token"]
     ELSE IF tok.id \notin UserIds
     THEN last' = [base EXCEPT !.status = 404,
               !.msg = "The user belonging to this token no longer exists"]
     ELSE last' = [base EXCEPT !.status = 200, !.uid = tok.id,
               !.identity = [name |-> users[tok.id].name,
                             email |-> users[tok.id].email,
                             password |-> users[tok.id].password]]

\* ----------------------------------------------------------- GET /favorites
PopulateKeepAll(arr) == arr

\* populate("favorites"): each id replaced by its Car document; an id with
\* no document is dropped from the array
Populate(arr) ==
  LET Exists(id) == id \in cars IN SelectSeq(arr, Exists)

Favorites(tok, storeOk) ==
  /\ UNCHANGED <<users, cars, carrier, kept, now, inflight>>
  /\ LET base == [Blank EXCEPT !.route = "favorites", !.at = now, !.cookie = tok,
                               !.gate = "Authenticated", !.ran = TRUE,
                               !.sess = tok.id]
     IN
     IF ~Admitted("favorites", tok)
     THEN last' = Rejected("favorites", tok)
     ELSE IF tok = NoToken
     THEN last' = [base EXCEPT !.status = 200,
               !.msg = "JWT must be provided. Please log in."]
     ELSE IF JwtVerify(tok, now) # "ok"
     THEN last' = [base EXCEPT !.status = 401, !.msg = "Invalid token"]
     ELSE IF ~storeOk
     THEN last' = [base EXCEPT !.status = 500, !.msg = "Error fetching favorites"]
     ELSE IF tok.id \notin UserIds
     THEN last' = [base EXCEPT !.status = 401, !.msg = "User not found"]
     ELSE last' = [base EXCEPT !.status = 200, !.uid = tok.id,
               !.read = users[tok.id].favorites,
               !.favorites = Populate(users[tok.id].favorites)]

\* ---------------------------------------------------------- POST /sellACar
\* what the request carries: a well-formed multipart ad, an ad the schema
\* rejects, a file that is not an image, a body that is not multipart
AdKinds == {"valid", "invalid", "notImage", "notMultipart"}

SellACar(tok, ad, storeOk) ==
  /\ UNCHANGED <<users, carrier, kept, now, inflight>>
  /\ LET base == [Blank EXCEPT !.route = "sellACar", !.at = now, !.cookie = tok,
                               !.gate = "Authenticated", !.ran = TRUE,
                               !.sess = tok.id]
     IN
     IF ~Admitted("sellACar", tok)
     THEN /\ last' = Rejected("sellACar", tok)
          /\ UNCHANGED cars
     ELSE IF ad = "notImage"
     THEN \* multerFilter passes an Error on; express answers it
          /\ last' = [base EXCEPT !.ran = FALSE, !.status = 500,
                                  !.msg = "Not an image! Only images allowed."]
          /\ UNCHANGED cars
     ELSE IF ad = "notMultipart"
     THEN \* req.files is undefined: a TypeError, which the catch ignores
          /\ last' = [base EXCEPT !.responded = FALSE]
          /\ UNCHANGED cars
     ELSE IF ad = "invalid"
     THEN /\ last' = [base EXCEPT !.status = 200, !.msg = "ValidationError"]
          /\ UNCHANGED cars
     ELSE IF ~storeOk
     THEN /\ last' = [base EXCEPT !.responded = FALSE]
          /\ UNCHANGED cars
     ELSE /\ cars # CarIds
          /\ LET id == CHOOSE c \in CarIds \ cars :
                         \A d \in CarIds \ cars : c = "c1" \/ d # "c1"
             IN /\ cars' = cars \cup {id}
                /\ last' = [base EXCEPT !.status = 200, !.msg = "Ad created",
                                        !.carId = id]

\* --------------------------------------------------------- POST /sendEmail
SendEmail(tok, fieldsOk, sent) ==
  /\ UNCHANGED <<users, cars, carrier, kept, now, inflight>>
  /\ LET base == [Blank EXCEPT !.route = "sendEmail", !.at = now, !.cookie = tok,
                               !.gate = "Authenticated", !.ran = TRUE,
                               !.sess = tok.id]
     IN
     IF ~Admitted("sendEmail", tok)
     THEN last' = Rejected("sendEmail", tok)
     ELSE IF ~fieldsOk
     THEN last' = [base EXCEPT !.status = 400, !.msg = "All fields are required!"]
     ELSE IF ~sent
     THEN last' = [base EXCEPT !.status = 500, !.msg = "Error sending email"]
     ELSE last' = [base EXCEPT !.status = 200, !.msg = "Email sent successfully!"]

\* ----------------------------------------------------------- specification
Init ==
  /\ users = <<>>
  /\ cars = {}
  /\ carrier = NoToken
  /\ kept = NoToken
  /\ now = 0
  /\ inflight = EmptyBag
  /\ last = Blank

Suspended == BagToSet(inflight)

Quiet == inflight = EmptyBag

\* The handlers are composed in several specifications, each sending the
\* requests its properties are about; all start from the empty store.

\* One identity; concurrent toggles of its favorites with its own cookie, any
\* carId; the write may fail.
NextToggle ==
  \/ Quiet /\ SignupFind("ann", "a@x.com", "p1", "p1", TRUE)
  \/ \E r \in Suspended : SignupCreate(r, TRUE)
  \/ Login("a@x.com", "p1", TRUE)
  \/ \E carId \in CarParams, userId \in UserIds \cup {GhostId} :
        FavoriteCarFind(carrier, carId, userId, TRUE)
  \/ \E r \in Suspended, storeOk \in BOOLEAN : FavoriteCarSave(r, storeOk)

SpecToggle == Init /\ [][NextToggle]_vars


\* Two identities, either may log in; toggles one at a time, the body
\* carrying any userId.
NextOwner ==
  \/ \E body \in {<<"ann", "a@x.com">>, <<"bob", "b@x.com">>} :
        Quiet /\ SignupFind(body[1], body[2], "p1", "p1", TRUE)
  \/ \E r \in Suspended : SignupCreate(r, TRUE)
  \/ \E email \in {"a@x.com", "b@x.com"} : Login(email, "p1", TRUE)
  \/ \E tok \in Presentable, carId \in CarParams, userId \in 0..MaxUsers :
        Quiet /\ FavoriteCarFind(tok, carId, userId, TRUE)
  \/ \E r \in Suspended, storeOk \in BOOLEAN : FavoriteCarSave(r, storeOk)

SpecOwner == Init /\ [][NextOwner]_vars

\* One identity; every gated route with any cookie, login, logout and the
\* clock; toggles one at a time.
NextSession ==
  \/ Quiet /\ SignupFind("ann", "a@x.com", "p1", "p1", TRUE)
  \/ \E r \in Suspended : SignupCreate(r, TRUE)
  \/ Login("a@x.com", "p1", TRUE)
  \/ \E tok \in Presentable : Logout(tok)
  \/ \E tok \in Presentable : GetUser(tok, TRUE)
  \/ \E tok \in Presentable : Favorites(tok, TRUE)
  \/ \E tok \in Presentable, ad \in AdKinds : SellACar(tok, ad, TRUE)
  \/ \E tok \in Presentable, fieldsOk \in BOOLEAN : SendEmail(tok, fieldsOk, TRUE)
  \/ \E tok \in Presentable, userId \in 0..MaxUsers :
        Quiet /\ FavoriteCarFind(tok, "c1", userId, TRUE)
  \/ \E r \in Suspended : FavoriteCarSave(r, TRUE)
  \/ Tick

SpecSession == Init /\ [][NextSession]_vars

\* One identity, its own cookie; every handler, each store operation and the
\* mail transport free to fail.
NextFaults ==
  \/ \E name \in {"ann", "a"}, storeOk \in BOOLEAN :
        Quiet /\ SignupFind(name, "a@x.com", "p1", "p1", storeOk)
  \/ \E r \in Suspended, storeOk \in BOOLEAN : SignupCreate(r, storeOk)
  \/ \E password \in Passwords, storeOk \in BOOLEAN : Login("a@x.com", password, storeOk)
  \/ \E storeOk \in BOOLEAN : GetUser(carrier, storeOk)
  \/ \E storeOk \in BOOLEAN : Favorites(carrier, storeOk)
  \/ \E ad \in AdKinds, storeOk \in BOOLEAN : SellACar(carrier, ad, storeOk)
  \/ \E fieldsOk \in BOOLEAN, sent \in BOOLEAN : SendEmail(carrier, fieldsOk, sent)
  \/ \E carId \in CarParams, userId \in 0..MaxUsers, storeOk \in BOOLEAN :
        Quiet /\ FavoriteCarFind(carrier, carId, userId, storeOk)
  \/ \E r \in Suspended, storeOk \in BOOLEAN : FavoriteCarSave(r, storeOk)

SpecFaults == Init /\ [][NextFaults]_vars

\* Two identities with different passwords; login with any body, logout.
NextLogin ==
  \/ \E body \in {<<"ann", "a@x.com", "p1">>, <<"bob", "b@x.com", "p2">>} :
        Quiet /\ SignupFind(body[1], body[2], body[3], body[3], TRUE)
  \/ \E r \in Suspended : SignupCreate(r, TRUE)
  \/ \E email \in Emails \cup {Undefined}, password \in Passwords \cup {Undefined},
        storeOk \in BOOLEAN : Login(email, password, storeOk)
  \/ Logout(carrier)
  \/ Tick

SpecLogin == Init /\ [][NextLogin]_vars

\* Signups with any body, suspended and resumed in any order.
NextSignup ==
  \/ \E name \in {"ann", "bob"}, email \in Emails,
        confirm \in Passwords \cup {Undefined} :
        SignupFind(name, email, "p1", confirm, TRUE)
  \/ \E r \in Suspended : SignupCreate(r, TRUE)

SpecSignup == Init /\ [][NextSignup]_vars

\* Two identities; tokens are issued by logins at any time and presented to
\* /getUser at any later time, also after a logout.
NextToken ==
  \/ \E body \in {<<"ann", "a@x.com">>, <<"bob", "b@x.com">>} :
        Quiet /\ SignupFind(body[1], body[2], "p1", "p1", TRUE)
  \/ \E r \in Suspended : SignupCreate(r, TRUE)
  \/ \E email \in {"a@x.com", "b@x.com"} : Login(email, "p1", TRUE)
  \/ Logout(carrier)
  \/ \E tok \in Presentable : GetUser(tok, TRUE)
  \/ Tick

SpecToken == Init /\ [][NextToken]_vars

\* Two identities, either may log in; listings are created, favorites are
\* toggled one at a time for either identity and listed.
NextFavorites ==
  \/ \E body \in {<<"ann", "a@x.com">>, <<"bob", "b@x.com">>} :
        Quiet /\ SignupFind(body[1], body[2], "p1", "p1", TRUE)
  \/ \E r \in Suspended : SignupCreate(r, TRUE)
  \/ \E email \in {"a@x.com", "b@x.com"} : Login(email, "p1", TRUE)
  \/ SellACar(carrier, "valid", TRUE)
  \/ \E carId \in CarParams, userId \in UserIds :
        Quiet /\ FavoriteCarFind(carrier, carId, userId, TRUE)
  \/ \E r \in Suspended : FavoriteCarSave(r, TRUE)
  \/ Favorites(carrier, TRUE)

SpecFavorites == Init /\ [][NextFavorites]_vars

\* The journey of a client: sign up, log in, then with the session of the
\* login favorite a listing (its id as the server gives it, the body naming
\* the client's own identity), list the favorites, send the same PATCH again
\* and list the favorites again.  Two clients on one browser; listings are
\* created at any time.
NextJourney ==
  \/ \E body \in {<<"ann", "a@x.com">>, <<"bob", "b@x.com">>} :
        /\ Quiet
        /\ FindByEmail(body[2]) = {}
        /\ SignupFind(body[1], body[2], "p1", "p1", TRUE)
  \/ \E r \in Suspended : SignupCreate(r, TRUE)
  \/ \E email \in {"a@x.com", "b@x.com"} :
        /\ FindByEmail(email) # {}
        /\ Login(email, "p1", TRUE)
  \/ SellACar(carrier, "valid", TRUE)
  \/ \E carId \in cars :
        /\ Quiet
        /\ carrier # NoToken
        /\ users[carrier.id].v < 2
        /\ users[carrier.id].favorites # <<>> => carId = users[carrier.id].favorites[1]
        /\ FavoriteCarFind(carrier, carId, carrier.id, TRUE)
  \/ \E r \in Suspended : FavoriteCarSave(r, TRUE)
  \/ carrier # NoToken /\ Favorites(carrier, TRUE)

SpecJourney == Init /\ [][NextJourney]_vars

\* Two identities, either may log in and out; every route that reads an
\* identity, with the cookie or without one; listings are created; toggles
\* one at a time for either identity.
NextFrame ==
  \/ \E body \in {<<"ann", "a@x.com">>, <<"bob", "b@x.com">>} :
        Quiet /\ SignupFind(body[1], body[2], "p1", "p1", TRUE)
  \/ \E r \in Suspended : SignupCreate(r, TRUE)
  \/ \E email \in {"a@x.com", "b@x.com"} : Login(email, "p1", TRUE)
  \/ Logout(carrier)
  \/ \E tok \in {carrier, NoToken} : GetUser(tok, TRUE)
  \/ \E tok \in {carrier, NoToken} : Favorites(tok, TRUE)
  \/ SellACar(carrier, "valid", TRUE)
  \/ \E carId \in CarIds, userId \in UserIds :
        Quiet /\ FavoriteCarFind(carrier, carId, userId, TRUE)
  \/ \E r \in Suspended : FavoriteCarSave(r, TRUE)

SpecFrame == Init /\ [][NextFrame]_vars

\* ------------------------------------------------------------ the toggle
\* a completed PATCH /favoriteCar that answered with the favorites
Toggled == last.route = "favoriteCar" /\ last.status = 200

\* the toggle of resource id r applied to the set S
ToggleOf(S, r) == IF r \in S THEN S \ {r} ELSE S \cup {r}

\* C1: a toggle that ran alone on an identity whose stored favorite set is S
\* persists and returns S \ {r} when r is in S and S \cup {r} when it is not,
\* for every S and every resource id r (r being the ObjectId the route
\* parameter spells).
C1_ToggleAlone ==
  (Toggled /\ last.read = last.stored) =>
    LET expected == ToggleOf(SeqToSet(last.stored), CastObjectId(last.carId))
    IN /\ SeqToSet(users[last.uid].favorites) = expected
       /\ SeqToSet(last.favorites) = expected

\* C1 on the route parameters that are the lowercase spelling of their id
C1_ToggleAloneLowercase ==
  (Toggled /\ last.read = last.stored /\ last.carId \in CarIds) =>
    LET expected == ToggleOf(SeqToSet(last.stored), last.carId)
    IN /\ SeqToSet(users[last.uid].favorites) = expected
       /\ SeqToSet(last.favorites) = expected

\* C2: two successive completed toggles of the same resource id on the same
\* identity, with no other change to it in between, leave the stored
\* favorite set as it was before the first.  The step is the write of the
\* second toggle; last is the first, which ran on the set S = last.stored.
C2_TogglePair ==
  [][\A r \in Suspended :
       ( /\ r.route = "favoriteCar"
         /\ inflight' = inflight (-) SetToBag({r})
         /\ last'.status = 200
         /\ Toggled
         /\ last.read = last.stored
         /\ last.uid = r.uid
         /\ CastObjectId(last.carId) = CastObjectId(r.carId)
         /\ r.doc.v = users[last.uid].v )
       => SeqToSet(users'[last.uid].favorites) = SeqToSet(last.stored)]_vars

\* C3: a toggle that adds r2, suspended while other toggles added to the
\* same identity, keeps what they stored: the stored set then holds r2 and
\* every id that was stored when it wrote.
C3_NoLostUpdate ==
  (Toggled /\ last.op = "add") =>
    SeqToSet(last.stored) \cup {CastObjectId(last.carId)}
      \subseteq SeqToSet(users[last.uid].favorites)

\* two adds of distinct ids, the second read before the first wrote, and
\* both ids are stored
C3_Witness ==
  /\ Toggled
  /\ last.op = "add"
  /\ last.read = <<>>
  /\ \E r1 \in SeqToSet(last.stored) : r1 # CastObjectId(last.carId)
  /\ Cardinality(SeqToSet(users[last.uid].favorites)) = 2

\* C6: no identity's stored favorites hold a resource id more than once.
C6_NoDuplicates ==
  \A u \in UserIds :
    \A i, j \in 1..Len(users[u].favorites) :
      i # j => users[u].favorites[i] # users[u].favorites[j]


\* C5: a toggle writes the favorites of the identity its session token
\* names, whatever userId the body carries.
C5_OwnFavoritesOnly == Toggled => last.uid = last.sess


\* ------------------------------------------------------------ the session
ProtectedRoutes == {"favoriteCar", "favorites", "getUser", "sellACar", "sendEmail"}

\* the token a request carried was past its exp when the request was made
Expired(tok, t) == tok # NoToken /\ t >= tok.exp

\* C4: a request to a protected route with no token, an expired token or a
\* token naming an identity absent from the store is rejected and no handler
\* logic runs for it; handler logic runs, and a toggle is suspended at the
\* store, only for a request whose token verified and whose identity is in
\* the store.
C4_GateRejects ==
  /\ ( /\ last.route \in ProtectedRoutes
       /\ \/ last.cookie = NoToken
          \/ Expired(last.cookie, last.at)
          \/ last.cookie.id \notin UserIds )
     => /\ last.gate \in {"NoSession", "InvalidSession", "IdentityGone"}
        /\ ~last.ran
        /\ last.status = 401
  /\ (last.route \in ProtectedRoutes /\ last.ran)
     => /\ last.gate = "Authenticated"
        /\ JwtVerify(last.cookie, last.at) = "ok"
        /\ last.cookie.id \in UserIds
        /\ last.sess = last.cookie.id
  /\ \A r \in Suspended :
       r.route = "favoriteCar"
       => /\ JwtVerify(r.cookie, r.at) = "ok"
          /\ r.cookie.id \in UserIds

\* an expired token of an identity of the store is turned away
C4_Witness ==
  /\ last.route = "favoriteCar"
  /\ last.cookie.id \in UserIds
  /\ Expired(last.cookie, last.at)
  /\ last.gate = "InvalidSession"

\* C7: every request that a handler has finished with has been answered.
C7_AlwaysAnswered == last.responded

\* C8: a login that the store answered sets the cookie to a fresh token of
\* identity u exactly when the email of the body is the email of u (as the
\* schema stores it) and the password of the body is the password stored for
\* u; otherwise it issues no token and leaves the cookie as it was.
C8_LoginIssuesToken ==
  (last.route = "login" /\ last.responded) =>
    LET match == {u \in UserIds : /\ users[u].email = Lowercase(last.email)
                                  /\ users[u].password = last.password}
    IN /\ last.token # NoToken <=> match # {}
       /\ last.token # NoToken =>
            /\ last.token.id \in match
            /\ last.token = JwtSign(last.token.id, last.at)
            /\ carrier = last.token
       /\ last.token = NoToken => carrier = last.cookieBefore

\* a login of the second identity while the cookie holds a token of the first
C8_Witness ==
  /\ last.route = "login"
  /\ last.token # NoToken
  /\ last.token.id = 2
  /\ last.cookieBefore # NoToken
  /\ last.cookieBefore.id = 1

\* a refused login that leaves a token in the cookie
C8_WitnessRefused ==
  /\ last.route = "login"
  /\ last.msg = "Wrong password!"
  /\ carrier # NoToken

\* C9: a token that a logout cleared from the cookie, presented before its
\* exp, still verifies and is admitted by the gate; /getUser, which verifies
\* it again, answers with its identity.
C9_LogoutKeepsTokenValid ==
  ( /\ last.route \in ProtectedRoutes
    /\ kept # NoToken
    /\ last.cookie = kept
    /\ ~Expired(kept, last.at) )
  => /\ JwtVerify(kept, last.at) = "ok"
     /\ last.gate = "Authenticated"
     /\ last.route = "getUser" => last.status = 200 /\ last.uid = kept.id

\* after a logout, with no cookie left, /getUser answers the cleared token
C9_Witness ==
  /\ last.route = "getUser"
  /\ carrier = NoToken
  /\ kept # NoToken
  /\ last.cookie = kept
  /\ last.status = 200
  /\ last.uid = kept.id

\* -------------------------------------------------------------- the store
\* C10: no two identity records share an email and no two share a name.
C10_UniqueIdentities ==
  \A u, w \in UserIds :
    u # w => users[u].email # users[w].email /\ users[u].name # users[w].name

\* a signup that passed the existence check and was refused at creation
\* because another signup had stored its email in between
C10_Witness ==
  /\ last.route = "signup"
  /\ last.msg = "That name is already taken!"
  /\ \E u \in UserIds : users[u].email = Lowercase(last.email)

\* ---------------------------------------------------------- the favorites
\* C11: GET /favorites with a valid session answers with the listings that
\* exist and whose ids are among the favorites of the identity the session
\* token names, and with no other; an id with no listing is left out and the
\* request is still answered with the list.
C11_FavoritesOfSession ==
  (last.route = "favorites" /\ last.gate = "Authenticated") =>
    /\ last.status = 200
    /\ last.uid = last.cookie.id
    /\ SeqToSet(last.favorites) = SeqToSet(users[last.cookie.id].favorites) \cap cars
    /\ Len(last.favorites) <= Len(users[last.cookie.id].favorites)

\* the identity of the session has a favorite with a listing and one
\* without, and the other identity has favorites that are not its own
C11_Witness ==
  /\ last.route = "favorites"
  /\ last.status = 200
  /\ last.favorites # <<>>
  /\ \E id \in SeqToSet(users[last.uid].favorites) : id \notin cars
  /\ \E u \in UserIds :
       /\ u # last.uid
       /\ SeqToSet(users[u].favorites) \cap cars # SeqToSet(last.favorites)

\* C12: no response carries the password of an identity.  The identity
\* record of a response is last.identity (/signup: newUser, /getUser:
\* currentUser; /favorites answers with listings only).
C12_NoCredentialInResponse ==
  last.route \in {"signup", "getUser", "favorites"} => last.identity.password = ""

\* ------------------------------------------------------------- the tokens
\* C13: a token issued for an identity id with JWT_SECRET verifies at every
\* time from its issue to before its exp and carries that id, and never
\* verifies from its exp on; /getUser, given a token that a login issued,
\* answers with the identity of the token's id when it is presented before
\* its exp and with no identity when it is presented later.
C13_TokenRoundTrip ==
  /\ \A id \in 0..MaxUsers, t0 \in 0..MaxTime, t \in 0..(MaxTime + JwtExpireTime + 1) :
       LET tok == JwtSign(id, t0)
       IN /\ (t0 <= t /\ t < tok.exp) => (JwtVerify(tok, t) = "ok" /\ tok.id = id)
          /\ t >= tok.exp => JwtVerify(tok, t) # "ok"
  /\ ( /\ last.route = "getUser"
       /\ last.cookie.sig = "secret"
       /\ last.cookie.id \in UserIds )
     => /\ last.at < last.cookie.exp =>
             /\ last.status = 200
             /\ last.uid = last.cookie.id
             /\ last.identity.name = users[last.cookie.id].name
        /\ last.at >= last.cookie.exp =>
             /\ last.status # 200
             /\ last.identity = NoIdentity

\* a token of the second identity, verified after its issue and before its
\* exp
C13_Witness ==
  /\ last.route = "getUser"
  /\ last.status = 200
  /\ last.uid = 2
  /\ last.cookie = JwtSign(2, last.at - 1)

\* a token of an identity of the store presented at its exp
C13_WitnessExpired ==
  /\ last.route = "getUser"
  /\ last.cookie.id \in UserIds
  /\ last.cookie.sig = "secret"
  /\ last.at = last.cookie.exp
  /\ last.status = 401

\* ------------------------------------------------------------ the journey
\* C14: after a signup and a login with the same credentials, the first
\* PATCH /favoriteCar/<id> of the session adds <id>, GET /favorites then
\* answers with exactly the listing <id>, the second PATCH /favoriteCar/<id>
\* removes it and GET /favorites then answers with the empty list.  The
\* number of PATCH requests an identity has completed is its version v.
C14_EndToEnd ==
  /\ last.route = "signup" => last.msg = "User signed up"
  /\ last.route = "login" =>
       /\ last.msg = "User logged in!"
       /\ carrier = last.token
       /\ users[carrier.id].email = last.email
  /\ \A u \in UserIds :
       /\ users[u].v = 0 => users[u].favorites = <<>>
       /\ users[u].v = 1 => Len(users[u].favorites) = 1
       /\ users[u].v = 2 => users[u].favorites = <<>>
  /\ last.route = "favoriteCar" =>
       /\ last.status = 200
       /\ last.uid = last.sess
       /\ users[last.uid].v = 1 =>
            /\ last.op = "add"
            /\ users[last.uid].favorites = <<last.carId>>
            /\ last.favorites = <<last.carId>>
       /\ users[last.uid].v = 2 =>
            /\ last.op = "remove"
            /\ last.read = <<last.carId>>
            /\ last.favorites = <<>>
  /\ last.route = "favorites" =>
       /\ last.status = 200
       /\ last.uid = last.sess
       /\ users[last.uid].v = 1 =>
            /\ last.favorites = users[last.uid].favorites
            /\ last.favorites[1] \in cars
       /\ users[last.uid].v \in {0, 2} => last.favorites = <<>>

\* the end of the journey: two PATCH requests done, the list is empty again
C14_Witness ==
  /\ last.route = "favorites"
  /\ last.status = 200
  /\ users[last.uid].v = 2
  /\ last.favorites = <<>>
  /\ cars # {}

\* the middle of the journey: one PATCH done, the list is the listing
C14_WitnessListed ==
  /\ last.route = "favorites"
  /\ last.status = 200
  /\ users[last.uid].v = 1
  /\ Len(last.favorites) = 1

\* ------------------------------------------------------ failures of a toggle
\* C15: the step in which a suspended toggle is resumed and answered.  When
\* its write fails, the answer is the 500 of the catch and the store is what
\* it was, which for a toggle that ran alone is what it read when it began;
\* a toggle is answered 500 at this step only if it wrote nothing.
C15_FailedWriteDiscarded ==
  [][\A r \in Suspended :
       (r.route = "favoriteCar" /\ inflight' = inflight (-) SetToBag({r}))
       => /\ last'.route = "favoriteCar"
          /\ last'.responded
          /\ last'.status \in {200, 500}
          /\ last'.status = 500 <=> users' = users
          /\ last'.status = 500 =>
               /\ last'.msg = "Error updating favorite status"
               /\ last'.favorites = <<>>
               /\ r.doc.favorites = users[r.uid].favorites
                    => users'[r.uid].favorites = r.doc.favorites]_vars

\* a removal whose write failed: the id is still stored
C15_Witness ==
  /\ last.route = "favoriteCar"
  /\ last.status = 500
  /\ last.op = "remove"
  /\ last.read = last.stored
  /\ users[last.uid].favorites = last.read
  /\ Includes(users[last.uid].favorites, last.carId)

C17_OnlyToggleWrites ==
  [][/\ Len(users') >= Len(users)
     /\ cars \subseteq cars'
     /\ \A u \in UserIds :
          /\ users'[u].name = users[u].name
          /\ users'[u].email = users[u].email
          /\ users'[u].password = users[u].password
          /\ users'[u] # users[u] =>
               /\ last'.route = "favoriteCar"
               /\ last'.status = 200
               /\ last'.uid = u
     /\ ( \/ last'.route \in {"login", "logout", "getUser", "favorites"}
          \/ last'.gate \in {"NoSession", "InvalidSession", "IdentityGone"} )
        => (users' = users /\ cars' = cars)]_vars

\* a toggle has written one identity while the other keeps other favorites
C17_Witness ==
  /\ Toggled
  /\ Len(users) = 2
  /\ users[1].favorites # <<>>
  /\ users[2].favorites # <<>>
  /\ users[1].favorites # users[2].favorites

\* ------------------------------------------------------------- the signup
\* C18: the step in which a suspended signup is resumed.  It creates an
\* identity only if the passwordConfirm of its body equals the password of
\* its body; a body without passwordConfirm creates none.
C18_ConfirmRequired ==
  [][\A r \in Suspended :
       ( /\ r.route = "signup"
         /\ inflight' = inflight (-) SetToBag({r})
         /\ Len(users') > Len(users) )
       => r.confirm = r.password]_vars

\* C18 for the bodies that carry a passwordConfirm
C18_ConfirmChecked ==
  [][\A r \in Suspended :
       ( /\ r.route = "signup"
         /\ r.confirm # Undefined
         /\ inflight' = inflight (-) SetToBag({r})
         /\ Len(users') > Len(users) )
       => r.confirm = r.password]_vars

\* ------------------------------------------------------------- the logout
\* C19: a logout that is answered leaves the client with no cookie; while
\* the client has no cookie, each request it makes to a protected route is
\* rejected by the gate as having no session, runs no handler and leaves it
\* without a cookie; the client gets a cookie again only from a login that
\* succeeds.
C19_LogoutClearsCarrier ==
  [][/\ (last'.route = "logout" /\ last'.status = 200) => carrier' = NoToken
     /\ ( /\ carrier = NoToken
          /\ last' # last
          /\ last'.route \in ProtectedRoutes
          /\ last'.cookie = carrier )
        => /\ last'.gate = "NoSession"
           /\ last'.status = 401
           /\ ~last'.ran
           /\ carrier' = NoToken
     /\ (carrier = NoToken /\ carrier' # NoToken)
        => /\ last'.route = "login"
           /\ last'.msg = "User logged in!"
           /\ carrier' = last'.token]_vars

\* after a logout, a request without cookie is turned away
C19_Witness ==
  /\ last.route \in ProtectedRoutes
  /\ last.cookie = NoToken
  /\ last.gate = "NoSession"
  /\ carrier = NoToken
  /\ kept # NoToken

====
